---- MODULE Spec2Model ----
(***************************************************************************)
(* Model of src/plugin/transform.js: transform(input), the Trakt.tv        *)
(* payload transformer.  One call reads eight indexed batches              *)
(* (input.IDX_0 .. input.IDX_7), shapes and de-duplicates them, joins them *)
(* pairwise into four capped sections and returns the output document.     *)
(*                                                                         *)
(* JavaScript values are records tagged by t.  Numbers are kept in         *)
(* hundredths (7.83 is Num(783), season 1 is Num(100)), which is exact for *)
(* every number the model draws.  A TypeError raised by the call is the    *)
(* control state pc = "threw".  fetched_at (the wall clock) is left out:   *)
(* nothing below reads it.                                                 *)
(***************************************************************************)
EXTENDS Integers, Sequences, FiniteSets, TLC

VARIABLES input, pc, lists, sections, output

vars == <<input, pc, lists, sections, output>>

(***************************************************************************)
(* Bounds of the model.                                                    *)
(***************************************************************************)
\* longest batch drawn from a pool of varied records
MaxLen == 3
\* longest batch of pairwise distinct records (reaches the caps 5 and 10)
MaxBatch == 11

(***************************************************************************)
(* JavaScript values.                                                      *)
(***************************************************************************)
Undefined == [t |-> "undefined"]
Null == [t |-> "null"]
NaN == [t |-> "NaN"]
Num(h) == [t |-> "number", h |-> h]
Whole(n) == Num(n * 100)
Str(s) == [t |-> "string", s |-> s]
Array(items) == [t |-> "array", items |-> items]

IsNullish(v) == v.t \in {"undefined", "null"}

\* o?.f : undefined when o is null or undefined, else the property
OptChain(o, f) == IF IsNullish(o) THEN Undefined ELSE o[f]

\* ToBoolean(v)
Truthy(v) ==
  CASE v.t \in {"undefined", "null", "NaN"} -> FALSE
    [] v.t = "number" -> v.h # 0
    [] v.t = "string" -> v.s # ""
    [] OTHER -> TRUE

\* v || null
OrNull(v) == IF Truthy(v) THEN v ELSE Null

\* Math.round(v): nearest integer, halves towards +infinity;
\* Math.round(undefined) is NaN and Math.round(null) is 0
MathRound(v) ==
  CASE v.t = "number" -> Num(((v.h + 50) \div 100) * 100)
    [] v.t = "null" -> Num(0)
    [] OTHER -> NaN

\* Number::toString of a number held in hundredths
RECURSIVE NumText(_)
NumText(h) ==
  IF h < 0 THEN "-" \o NumText(-h)
  ELSE LET i == h \div 100
           f == h % 100
       IN IF f = 0 THEN ToString(i)
          ELSE IF f % 10 = 0 THEN ToString(i) \o "." \o ToString(f \div 10)
          ELSE ToString(i) \o "." \o (IF f < 10 THEN "0" ELSE "") \o ToString(f)

\* `${v}` : the text a template literal renders for v
TemplateText(v) ==
  CASE v.t = "undefined" -> "undefined"
    [] v.t = "null" -> "null"
    [] v.t = "NaN" -> "NaN"
    [] v.t = "number" -> NumText(v.h)
    [] v.t = "string" -> v.s
    [] OTHER -> "[object Object]"

(***************************************************************************)
(* Key derivation (lines 5-13).                                            *)
(***************************************************************************)
\* the key leaves the episode number out
getEpisodeKey_NoNumber(item) ==
  TemplateText(OptChain(item.show, "title")) \o "-" \o
  TemplateText(OptChain(item.episode, "season"))

getEpisodeKey(item) ==
  TemplateText(OptChain(item.show, "title")) \o "-" \o
  TemplateText(OptChain(item.episode, "season")) \o "-" \o
  TemplateText(OptChain(item.episode, "number"))

getMovieKey(item) ==
  TemplateText(OptChain(item.movie, "title")) \o "-" \o
  TemplateText(OptChain(item.movie, "year"))

getShowKey(item) == TemplateText(item.title)

\* item.rating ? Math.round(item.rating * 10) / 10 : null
\* (a truthy value that is no number is taken as non-numeric: NaN)
RoundRating(v) ==
  IF Truthy(v)
  THEN IF v.t = "number" THEN Num(((v.h + 5) \div 10) * 10) ELSE NaN
  ELSE Null

(***************************************************************************)
(* The per-source field mappers: the object literal each callback builds.  *)
(***************************************************************************)
InProgressEpisodeEntry(item) ==
  [type |-> "episode",
   show |-> OptChain(item.show, "title"),
   season |-> OptChain(item.episode, "season"),
   episode |-> OptChain(item.episode, "number"),
   title |-> OptChain(item.episode, "title"),
   progress |-> MathRound(item.progress),
   paused_at |-> item.paused_at,
   tmdb_id |-> OrNull(OptChain(OptChain(item.show, "ids"), "tmdb")),
   media_type |-> "show"]

InProgressMovieEntry(item) ==
  [type |-> "movie",
   title |-> OptChain(item.movie, "title"),
   year |-> OptChain(item.movie, "year"),
   progress |-> MathRound(item.progress),
   paused_at |-> item.paused_at,
   tmdb_id |-> OrNull(OptChain(OptChain(item.movie, "ids"), "tmdb")),
   media_type |-> "movie"]

\* watched_at read from first_aired, as the upcoming loop does
RecentEpisodeEntry_AirDate(item) ==
  [type |-> "episode",
   show |-> OptChain(item.show, "title"),
   season |-> OptChain(item.episode, "season"),
   episode |-> OptChain(item.episode, "number"),
   title |-> OptChain(item.episode, "title"),
   watched_at |-> item.first_aired,
   tmdb_id |-> OrNull(OptChain(OptChain(item.show, "ids"), "tmdb")),
   media_type |-> "show"]

RecentEpisodeEntry(item) ==
  [type |-> "episode",
   show |-> OptChain(item.show, "title"),
   season |-> OptChain(item.episode, "season"),
   episode |-> OptChain(item.episode, "number"),
   title |-> OptChain(item.episode, "title"),
   watched_at |-> item.watched_at,
   tmdb_id |-> OrNull(OptChain(OptChain(item.show, "ids"), "tmdb")),
   media_type |-> "show"]

RecentMovieEntry(item) ==
  [type |-> "movie",
   title |-> OptChain(item.movie, "title"),
   year |-> OptChain(item.movie, "year"),
   watched_at |-> item.watched_at,
   tmdb_id |-> OrNull(OptChain(OptChain(item.movie, "ids"), "tmdb")),
   media_type |-> "movie"]

UpcomingEpisodeEntry(item) ==
  [type |-> "episode",
   show |-> OptChain(item.show, "title"),
   season |-> OptChain(item.episode, "season"),
   episode |-> OptChain(item.episode, "number"),
   title |-> OptChain(item.episode, "title"),
   airs_at |-> item.first_aired,
   tmdb_id |-> OrNull(OptChain(OptChain(item.show, "ids"), "tmdb")),
   media_type |-> "show"]

UpcomingMovieEntry(item) ==
  [type |-> "movie",
   title |-> OptChain(item.movie, "title"),
   year |-> OptChain(item.movie, "year"),
   released |-> item.released,
   tmdb_id |-> OrNull(OptChain(OptChain(item.movie, "ids"), "tmdb")),
   media_type |-> "movie"]

RecommendedShowEntry(item) ==
  [type |-> "show",
   title |-> item.title,
   year |-> item.year,
   rating |-> RoundRating(item.rating),
   network |-> item.network,
   tmdb_id |-> OrNull(OptChain(item.ids, "tmdb")),
   media_type |-> "show"]

RecommendedMovieEntry(item) ==
  [type |-> "movie",
   title |-> item.title,
   year |-> item.year,
   rating |-> RoundRating(item.rating),
   tmdb_id |-> OrNull(OptChain(item.ids, "tmdb")),
   media_type |-> "movie"]

\* the key function and the mapper of the loop over input.IDX_k
KeyOf(k, item) ==
  CASE k \in {2, 4} -> getEpisodeKey(item)
    [] k \in {3, 5, 7} -> getMovieKey(item)
    [] k = 6 -> getShowKey(item)

EntryOf(k, item) ==
  CASE k = 0 -> InProgressEpisodeEntry(item)
    [] k = 1 -> InProgressMovieEntry(item)
    [] k = 2 -> RecentEpisodeEntry(item)
    [] k = 3 -> RecentMovieEntry(item)
    [] k = 4 -> UpcomingEpisodeEntry(item)
    [] k = 5 -> UpcomingMovieEntry(item)
    [] k = 6 -> RecommendedShowEntry(item)
    [] k = 7 -> RecommendedMovieEntry(item)

(***************************************************************************)
(* new Map(): entries in insertion order.                                  *)
(***************************************************************************)
MapHas(m, key) == \E i \in 1..Len(m) : m[i].key = key

\* Map.prototype.set: a new key is appended, an old key keeps its position
MapSet(m, key, value) ==
  IF MapHas(m, key)
  THEN [i \in 1..Len(m) |-> IF m[i].key = key THEN [key |-> key, value |-> value] ELSE m[i]]
  ELSE Append(m, [key |-> key, value |-> value])

\* Array.from(m.values())
MapValues(m) == [i \in 1..Len(m) |-> m[i].value]

\* the callback without its has() test: the last record of a key wins
DedupStep_LastWins(k, m, item) == MapSet(m, KeyOf(k, item), EntryOf(k, item))

\* the forEach callback of the de-duplicating loops: if (!map.has(key)) map.set(key, {...})
DedupStep(k, m, item) ==
  LET key == KeyOf(k, item)
  IN IF ~MapHas(m, key) THEN MapSet(m, key, EntryOf(k, item)) ELSE m

RECURSIVE ForEachDedup(_, _, _, _)
ForEachDedup(k, items, i, m) ==
  IF i > Len(items) THEN m
  ELSE ForEachDedup(k, items, i + 1, DedupStep(k, m, items[i]))

(***************************************************************************)
(* Results of an expression that may raise a TypeError.                    *)
(***************************************************************************)
Thrown == [ok |-> FALSE, val |-> Undefined]
Ok(v) == [ok |-> TRUE, val |-> v]

\* (input.IDX_k?.data || []) : reading a property of a null input raises
SlotData(inp, k) ==
  IF IsNullish(inp) THEN Thrown
  ELSE LET d == OptChain(inp.IDX[k], "data")
       IN Ok(IF Truthy(d) THEN d ELSE Array(<<>>))

\* the callback reads item.show / item.movie / item.title: raises on a null element
CallbackThrows(item) == IsNullish(item)

\* the in-progress slots keep only the first record of each key, like the other six
ShapeBatch_DedupAll(k, d) ==
  IF d.t # "array" THEN Thrown
  ELSE IF \E i \in 1..Len(d.items) : CallbackThrows(d.items[i]) THEN Thrown
  ELSE IF k \in {0, 1}
       THEN LET keyOf(it) == IF k = 0 THEN getEpisodeKey(it) ELSE getMovieKey(it)
                idx == {i \in 1..Len(d.items) :
                          \A j \in 1..(i - 1) : keyOf(d.items[j]) # keyOf(d.items[i])}
                nth(r) == CHOOSE i \in idx : Cardinality({j \in idx : j <= i}) = r
            IN Ok([r \in 1..Cardinality(idx) |-> EntryOf(k, d.items[nth(r)])])
       ELSE Ok(MapValues(ForEachDedup(k, d.items, 1, <<>>)))

\* data.map(cb) for slots 0-1, data.forEach(cb) + Array.from(map.values()) for slots 2-7;
\* a value that is not an array has no map / forEach: the call raises
ShapeBatch(k, d) ==
  IF d.t # "array" THEN Thrown
  ELSE IF \E i \in 1..Len(d.items) : CallbackThrows(d.items[i]) THEN Thrown
  ELSE IF k \in {0, 1}
       THEN Ok([i \in 1..Len(d.items) |-> EntryOf(k, d.items[i])])
       ELSE Ok(MapValues(ForEachDedup(k, d.items, 1, <<>>)))

SubList(inp, k) ==
  LET d == SlotData(inp, k)
  IN IF d.ok THEN ShapeBatch(k, d.val) ELSE Thrown

episodesInProgress(inp) == SubList(inp, 0)
moviesInProgress(inp) == SubList(inp, 1)
recentEpisodes(inp) == SubList(inp, 2)
recentMovies(inp) == SubList(inp, 3)
upcomingShows(inp) == SubList(inp, 4)
upcomingMovies(inp) == SubList(inp, 5)
recommendedShows(inp) == SubList(inp, 6)
recommendedMovies(inp) == SubList(inp, 7)

\* the call raises at the first statement that raises
TransformThrows(inp) == \E k \in 0..7 : ~SubList(inp, k).ok

(***************************************************************************)
(* Section assembly (lines 146-165).                                       *)
(***************************************************************************)
ContinueCap == 5
RecentCap == 10
UpcomingCap == 10
RecommendedCap == 10

\* slice(0, n + 1): the cap is off by one
Slice_OffByOne(s, n) == SubSeq(s, 1, IF Len(s) < n + 1 THEN Len(s) ELSE n + 1)

\* Array.prototype.slice(0, n)
Slice(s, n) == SubSeq(s, 1, IF Len(s) < n THEN Len(s) ELSE n)

continueWatching(l) == Slice(l.episodesInProgress \o l.moviesInProgress, ContinueCap)
recentlyWatched(l) == Slice(l.recentEpisodes \o l.recentMovies, RecentCap)
upcoming(l) == Slice(l.upcomingShows \o l.upcomingMovies, UpcomingCap)
recommended(l) == Slice(l.recommendedShows \o l.recommendedMovies, RecommendedCap)

(***************************************************************************)
(* The output document (lines 167-188).                                    *)
(***************************************************************************)
IMAGE_BASE_URL == ""

HasContent(s) ==
  \/ Len(s.continue_watching) > 0
  \/ Len(s.recently_watched) > 0
  \/ Len(s.upcoming) > 0
  \/ Len(s.recommended) > 0

\* counts.recommended copied from the line above it
Counts_CopyPaste(s) ==
  [continue_watching |-> Len(s.continue_watching),
   recently_watched |-> Len(s.recently_watched),
   upcoming |-> Len(s.upcoming),
   recommended |-> Len(s.upcoming)]

Counts(s) ==
  [continue_watching |-> Len(s.continue_watching),
   recently_watched |-> Len(s.recently_watched),
   upcoming |-> Len(s.upcoming),
   recommended |-> Len(s.recommended)]

OutputDocument(s) ==
  [t |-> "object",
   data |-> [image_base_url |-> IMAGE_BASE_URL,
             continue_watching |-> s.continue_watching,
             recently_watched |-> s.recently_watched,
             upcoming |-> s.upcoming,
             recommended |-> s.recommended,
             has_content |-> HasContent(s),
             counts |-> Counts(s)]]

(***************************************************************************)
(* Inputs: the payloads a call is made with.                               *)
(***************************************************************************)
Slots == 0..7

EmptyItem ==
  [t |-> "object", show |-> Undefined, episode |-> Undefined, movie |-> Undefined,
   title |-> Undefined, year |-> Undefined, rating |-> Undefined,
   network |-> Undefined, ids |-> Undefined, progress |-> Undefined,
   paused_at |-> Undefined, watched_at |-> Undefined,
   first_aired |-> Undefined, released |-> Undefined]

Ids(n) == [t |-> "object", tmdb |-> Whole(n)]
ShowObj(title, ids) == [t |-> "object", title |-> title, ids |-> ids]
EpisodeObj(s, n, title) ==
  [t |-> "object", season |-> Whole(s), number |-> Whole(n), title |-> Str(title)]
MovieObj(title, year, ids) == [t |-> "object", title |-> title, year |-> year, ids |-> ids]

\* two sets of top-level fields; the second leaves progress out
Stamped(item, st) ==
  IF st = 1
  THEN [item EXCEPT !.progress = Num(4250), !.paused_at = Str("p1"),
                    !.watched_at = Str("w1"), !.first_aired = Str("a1"),
                    !.released = Str("d1")]
  ELSE [item EXCEPT !.paused_at = Str("p2"), !.watched_at = Str("w2"),
                    !.first_aired = Str("a2"), !.released = Str("d2")]

Shows == {Undefined, ShowObj(Str("X"), Ids(7)), ShowObj(Str("undefined"), Undefined)}
Episodes == {EpisodeObj(1, 1, "Pilot"), EpisodeObj(1, 2, "Second")}
Movies ==
  {Undefined, MovieObj(Str("M"), Whole(2000), Ids(9)),
   MovieObj(Str("M"), Whole(2001), Undefined),
   MovieObj(Str("undefined"), Undefined, Undefined)}

EpisodeItem(sh, ep) == [EmptyItem EXCEPT !.show = sh, !.episode = ep]
MovieItem(mv) == [EmptyItem EXCEPT !.movie = mv]

EpisodePool ==
  {Stamped(EpisodeItem(sh, ep), 1) : sh \in Shows, ep \in Episodes}
  \cup {Stamped(EpisodeItem(sh, EpisodeObj(1, 1, "Pilot")), 2) : sh \in Shows \ {Undefined}}
  \cup {EmptyItem}

MoviePool ==
  {Stamped(MovieItem(mv), 1) : mv \in Movies}
  \cup {Stamped(MovieItem(MovieObj(Str("M"), Whole(2000), Ids(9))), 2), EmptyItem}

\* a recommendation record is flat: title, year, rating, network, ids at the top level
RecItem(title, v) ==
  CASE v = 1 -> [EmptyItem EXCEPT !.title = title, !.year = Whole(2000), !.rating = Num(783),
                                  !.network = Str("HBO"), !.ids = Ids(5)]
    [] v = 2 -> [EmptyItem EXCEPT !.title = title, !.year = Whole(2001), !.rating = Num(785)]
    [] v = 3 -> [EmptyItem EXCEPT !.title = title, !.year = Whole(2000), !.rating = Num(0)]
    [] OTHER -> [EmptyItem EXCEPT !.title = title]

RecPool ==
  {RecItem(Str("A"), v) : v \in 1..4} \cup {RecItem(Str("B"), v) : v \in 1..2}
  \cup {EmptyItem}

Pool(k) ==
  CASE k \in {0, 2, 4} -> EpisodePool
    [] k \in {1, 3, 5} -> MoviePool
    [] OTHER -> RecPool

CorePool(k) ==
  CASE k \in {0, 2, 4} ->
         {Stamped([EmptyItem EXCEPT !.show = ShowObj(Str("X"), Ids(7)),
                                    !.episode = EpisodeObj(1, 1, "Pilot")], 1),
          Stamped([EmptyItem EXCEPT !.show = ShowObj(Str("X"), Ids(7)),
                                    !.episode = EpisodeObj(1, 1, "Pilot")], 2),
          Stamped([EmptyItem EXCEPT !.show = ShowObj(Str("X"), Ids(7)),
                                    !.episode = EpisodeObj(1, 2, "Second")], 1)}
    [] k \in {1, 3, 5} ->
         {Stamped([EmptyItem EXCEPT !.movie = MovieObj(Str("M"), Whole(2000), Ids(9))], 1),
          Stamped([EmptyItem EXCEPT !.movie = MovieObj(Str("M"), Whole(2000), Ids(9))], 2)}
    [] OTHER -> {RecItem(Str("A"), 1), RecItem(Str("B"), 2)}

\* the i-th of a run of records that differ pairwise in every field of their keys
DistinctItem(k, i) ==
  CASE k \in {0, 2, 4} ->
         Stamped([EmptyItem EXCEPT !.show = ShowObj(Str("X"), Ids(7)),
                                   !.episode = EpisodeObj(1, i, "Ep")], 1)
    [] k \in {1, 3, 5} ->
         Stamped([EmptyItem EXCEPT !.movie = MovieObj(Str("M"), Whole(2000 + i), Ids(9))], 1)
    [] OTHER ->
         [EmptyItem EXCEPT !.title = Str("T" \o ToString(i)), !.year = Whole(2000 + i),
                           !.rating = Num(783)]

DistinctBatch(k, n) == [i \in 1..n |-> DistinctItem(k, i)]

SeqsUpTo(S, n) == UNION {[1..m -> S] : m \in 0..n}

SlotObj(d) == [t |-> "object", data |-> d]
InputObj(f) == [t |-> "object", IDX |-> f]

EmptyLists ==
  [episodesInProgress |-> <<>>, moviesInProgress |-> <<>>,
   recentEpisodes |-> <<>>, recentMovies |-> <<>>,
   upcomingShows |-> <<>>, upcomingMovies |-> <<>>,
   recommendedShows |-> <<>>, recommendedMovies |-> <<>>]

EmptySections ==
  [continue_watching |-> <<>>, recently_watched |-> <<>>,
   upcoming |-> <<>>, recommended |-> <<>>]

Fillers == {Undefined, SlotObj(Array(<<EmptyItem>>))}

\* one slot is absent or lacks its data list; the other seven are all absent
\* or all hold one record with no fields
SparseInput(inp) ==
  \E k \in Slots, f \in Fillers, s \in {Undefined, SlotObj(Undefined), SlotObj(Null)} :
    inp = InputObj([j \in Slots |-> IF j = k THEN s ELSE f])

\* one slot holds a batch of varied records; the other seven are absent
FocusInput(inp) ==
  \E k \in Slots :
    \E b \in SeqsUpTo(Pool(k), MaxLen) :
      inp = InputObj([j \in Slots |-> IF j = k THEN SlotObj(Array(b)) ELSE Undefined])

\* both slots of one section hold batches; the other six are absent
PairInput(inp) ==
  \E sec \in 0..3 :
    \E a \in SeqsUpTo(CorePool(2 * sec), MaxLen), b \in SeqsUpTo(CorePool(2 * sec + 1), MaxLen) :
      inp = InputObj([j \in Slots |-> IF j = 2 * sec THEN SlotObj(Array(a))
                                      ELSE IF j = 2 * sec + 1 THEN SlotObj(Array(b))
                                      ELSE Undefined])

\* both slots of one section hold long batches of distinct records
LongInput(inp) ==
  \E sec \in 0..3, a \in 0..MaxBatch, b \in 0..MaxBatch :
    inp = InputObj([j \in Slots |-> IF j = 2 * sec THEN SlotObj(Array(DistinctBatch(j, a)))
                                    ELSE IF j = 2 * sec + 1 THEN SlotObj(Array(DistinctBatch(j, b)))
                                    ELSE Undefined])

\* no input at all, a data field that is not a list, a null element in a list
MalformedInput(inp) ==
  \/ inp \in {Null, Undefined}
  \/ \E k \in Slots, d \in {Str("oops"), Whole(5), [t |-> "object"]} :
       inp = InputObj([j \in Slots |-> IF j = k THEN SlotObj(d) ELSE Undefined])
  \/ \E k \in Slots :
       \E b \in SeqsUpTo({Null, EmptyItem}, MaxLen) :
         inp = InputObj([j \in Slots |-> IF j = k THEN SlotObj(Array(b)) ELSE Undefined])

(***************************************************************************)
(* The call.                                                               *)
(***************************************************************************)
Init ==
  /\ \/ SparseInput(input)
     \/ FocusInput(input)
     \/ PairInput(input)
     \/ LongInput(input)
     \/ MalformedInput(input)
  /\ pc = "call"
  /\ lists = EmptyLists
  /\ sections = EmptySections
  /\ output = Undefined

\* lines 15-144 when no statement raises: the eight sub-lists
ShapeSources ==
  /\ pc = "call"
  /\ ~TransformThrows(input)
  /\ lists' = [episodesInProgress |-> episodesInProgress(input).val,
               moviesInProgress |-> moviesInProgress(input).val,
               recentEpisodes |-> recentEpisodes(input).val,
               recentMovies |-> recentMovies(input).val,
               upcomingShows |-> upcomingShows(input).val,
               upcomingMovies |-> upcomingMovies(input).val,
               recommendedShows |-> recommendedShows(input).val,
               recommendedMovies |-> recommendedMovies(input).val]
  /\ pc' = "shaped"
  /\ UNCHANGED <<input, sections, output>>

\* lines 15-144 when a statement raises: the TypeError leaves transform, nothing is returned
ThrowTypeError ==
  /\ pc = "call"
  /\ TransformThrows(input)
  /\ pc' = "threw"
  /\ UNCHANGED <<input, lists, sections, output>>

\* lines 146-165
CombineSections ==
  /\ pc = "shaped"
  /\ sections' = [continue_watching |-> continueWatching(lists),
                  recently_watched |-> recentlyWatched(lists),
                  upcoming |-> upcoming(lists),
                  recommended |-> recommended(lists)]
  /\ pc' = "combined"
  /\ UNCHANGED <<input, lists, output>>

\* lines 167-188
Return ==
  /\ pc = "combined"
  /\ output' = OutputDocument(sections)
  /\ pc' = "returned"
  /\ UNCHANGED <<input, lists, sections>>

Next == ShapeSources \/ ThrowTypeError \/ CombineSections \/ Return

Spec == Init /\ [][Next]_vars

(***************************************************************************)
(* Vocabulary of the properties.                                           *)
(***************************************************************************)
Shaped == pc \in {"shaped", "combined", "returned"}
Combined == pc \in {"combined", "returned"}
Returned == pc = "returned"

\* the records of slot k as the caller passed them (empty unless a list)
Batch(k) ==
  IF input.t = "object" /\ input.IDX[k].t = "object" /\ input.IDX[k].data.t = "array"
  THEN input.IDX[k].data.items
  ELSE <<>>

\* positions whose key text occurs at no earlier position
FirstIdxSet(ks) == {i \in 1..Len(ks) : \A j \in 1..(i - 1) : ks[j] # ks[i]}
\* how many first occurrences lie at or before position i
Rank(S, i) == Cardinality({j \in S : j <= i})

Min(a, b) == IF a < b THEN a ELSE b
IsPrefixOfLength(out, full, n) ==
  /\ Len(out) = n
  /\ \A i \in 1..n : out[i] = full[i]

ShowTitle(item) == OptChain(item.show, "title")
Season(item) == OptChain(item.episode, "season")
Number(item) == OptChain(item.episode, "number")
MovieTitle(item) == OptChain(item.movie, "title")
MovieYear(item) == OptChain(item.movie, "year")

EpisodeKeyText(item) ==
  TemplateText(ShowTitle(item)) \o "-" \o TemplateText(Season(item)) \o "-" \o
  TemplateText(Number(item))
MovieKeyText(item) == TemplateText(MovieTitle(item)) \o "-" \o TemplateText(MovieYear(item))
FlatKeyText(item) == TemplateText(item.title) \o "-" \o TemplateText(item.year)

\* list is the first record of every key text of batch b, mapped by slot k's
\* mapper, in the order the key texts first occur
FirstPerKey(k, b, ks, list) ==
  LET S == FirstIdxSet(ks)
  IN /\ Len(list) = Cardinality(S)
     /\ \A i \in S : list[Rank(S, i)] = EntryOf(k, b[i])

(***************************************************************************)
(* C1: every emitted list is the prefix of length min(cap, n) of its first *)
(* sub-list followed by its second, n being the joined length and cap 5    *)
(* for continue_watching and 10 for the other three.                       *)
(***************************************************************************)
C1_CappedPrefix ==
  Combined =>
    LET cw == lists.episodesInProgress \o lists.moviesInProgress
        rw == lists.recentEpisodes \o lists.recentMovies
        up == lists.upcomingShows \o lists.upcomingMovies
        rc == lists.recommendedShows \o lists.recommendedMovies
    IN /\ IsPrefixOfLength(sections.continue_watching, cw, Min(5, Len(cw)))
       /\ IsPrefixOfLength(sections.recently_watched, rw, Min(10, Len(rw)))
       /\ IsPrefixOfLength(sections.upcoming, up, Min(10, Len(up)))
       /\ IsPrefixOfLength(sections.recommended, rc, Min(10, Len(rc)))
       /\ Returned =>
            /\ output.data.continue_watching = sections.continue_watching
            /\ output.data.recently_watched = sections.recently_watched
            /\ output.data.upcoming = sections.upcoming
            /\ output.data.recommended = sections.recommended

\* recently_watched cut at 10: six episodes, then four of eleven movies
C1_Witness ==
  /\ Returned
  /\ Len(lists.recentEpisodes) = 6
  /\ Len(lists.recentMovies) = 11
  /\ Len(output.data.recently_watched) = 10
  /\ output.data.recently_watched[10] = lists.recentMovies[4]

(***************************************************************************)
(* C2: in the returned document counts.X is the length of list X,          *)
(* has_content is true iff some list is non-empty, and with all eight      *)
(* slots empty or absent the lists are empty, has_content is false and the *)
(* counts are 0.                                                           *)
(***************************************************************************)
C2_MetadataAgrees ==
  Returned =>
    LET d == output.data
    IN /\ d.counts.continue_watching = Len(d.continue_watching)
       /\ d.counts.recently_watched = Len(d.recently_watched)
       /\ d.counts.upcoming = Len(d.upcoming)
       /\ d.counts.recommended = Len(d.recommended)
       /\ d.has_content = TRUE <=>
            \E l \in {d.continue_watching, d.recently_watched, d.upcoming, d.recommended} :
              Len(l) > 0
       /\ (\A k \in Slots : Batch(k) = <<>>) =>
            /\ d.continue_watching = <<>> /\ d.recently_watched = <<>>
            /\ d.upcoming = <<>> /\ d.recommended = <<>>
            /\ d.has_content = FALSE
            /\ \A f \in DOMAIN d.counts : d.counts[f] = 0

\* eleven recommended shows: the count is the emitted 10, not the 11 shaped
C2_Witness ==
  /\ Returned
  /\ Len(lists.recommendedShows) = 11
  /\ output.data.counts.recommended = 10
  /\ output.data.counts.upcoming = 0
  /\ output.data.has_content = TRUE

(***************************************************************************)
(* C3 as stated: in slots 2 and 4 the records of one show title + season + *)
(* episode number yield one entry, taken from the first of them, and       *)
(* records that differ in show, season or episode number are never         *)
(* collapsed: one entry per distinct (title, season, number).              *)
(***************************************************************************)
C3_OnePerEpisodeValue ==
  Shaped =>
    \A k \in {2, 4} :
      LET b == Batch(k)
          list == IF k = 2 THEN lists.recentEpisodes ELSE lists.upcomingShows
      IN Len(list) =
           Cardinality({<<ShowTitle(b[i]), Season(b[i]), Number(b[i])>> : i \in 1..Len(b)})

(***************************************************************************)
(* C3 as amended: in slots 2 and 4 records are collapsed exactly when the  *)
(* texts `${show.title}-${season}-${number}` are equal, an absent field     *)
(* written "undefined"; the entry of a text is built from its first record *)
(* (watched_at / airs_at and tmdb_id included), in first-occurrence order. *)
(***************************************************************************)
C3_OnePerEpisodeKeyText ==
  Shaped =>
    /\ FirstPerKey(2, Batch(2), [i \in 1..Len(Batch(2)) |-> EpisodeKeyText(Batch(2)[i])],
                   lists.recentEpisodes)
    /\ FirstPerKey(4, Batch(4), [i \in 1..Len(Batch(4)) |-> EpisodeKeyText(Batch(4)[i])],
                   lists.upcomingShows)
    /\ \A i \in 1..Len(lists.recentEpisodes) :
         \E j \in 1..Len(Batch(2)) :
           /\ lists.recentEpisodes[i].watched_at = Batch(2)[j].watched_at
           /\ \A h \in 1..(j - 1) : EpisodeKeyText(Batch(2)[h]) # EpisodeKeyText(Batch(2)[j])

\* X S1E1 twice with different watched_at and tmdb ids apart, then another episode
C3_Witness ==
  /\ Shaped
  /\ Len(Batch(2)) = 3
  /\ ShowTitle(Batch(2)[1]) = Str("X") /\ ShowTitle(Batch(2)[2]) = Str("X")
  /\ Number(Batch(2)[1]) = Number(Batch(2)[2])
  /\ Batch(2)[1].watched_at = Str("w2") /\ Batch(2)[2].watched_at = Str("w1")
  /\ Number(Batch(2)[3]) # Number(Batch(2)[1])
  /\ Len(lists.recentEpisodes) = 2
  /\ lists.recentEpisodes[1].watched_at = Str("w2")

(***************************************************************************)
(* C4: for slots 3, 5 and 6 the sub-list is the first-occurrence-per-key   *)
(* subsequence of the batch, the key being the text `${title}-${year}` of  *)
(* the movie, `${title}` of the show: one entity per key, every field from *)
(* the first record of the key, in order of first occurrence.              *)
(***************************************************************************)
C4_FirstOccurrencePerKey ==
  Shaped =>
    /\ FirstPerKey(3, Batch(3), [i \in 1..Len(Batch(3)) |-> MovieKeyText(Batch(3)[i])],
                   lists.recentMovies)
    /\ FirstPerKey(5, Batch(5), [i \in 1..Len(Batch(5)) |-> MovieKeyText(Batch(5)[i])],
                   lists.upcomingMovies)
    /\ FirstPerKey(6, Batch(6), [i \in 1..Len(Batch(6)) |-> TemplateText(Batch(6)[i].title)],
                   lists.recommendedShows)

\* show A twice with different ratings, years and ids, then show B
C4_Witness ==
  /\ Shaped
  /\ Len(Batch(6)) = 3
  /\ Batch(6)[1].title = Str("A") /\ Batch(6)[2].title = Str("A")
  /\ Batch(6)[3].title = Str("B")
  /\ Batch(6)[1].rating = Num(785) /\ Batch(6)[2].rating = Num(783)
  /\ Len(lists.recommendedShows) = 2
  /\ lists.recommendedShows[1].rating = Num(790)
  /\ lists.recommendedShows[1].tmdb_id = Null

(***************************************************************************)
(* C5: in slot 7 every record whose title + year differs from those of all *)
(* earlier records yields its own movie entry, in batch order; only        *)
(* records of one title + year are collapsed.                              *)
(***************************************************************************)
C5_RecommendedMoviesByTitleYear ==
  Shaped =>
    FirstPerKey(7, Batch(7), [i \in 1..Len(Batch(7)) |-> FlatKeyText(Batch(7)[i])],
                lists.recommendedMovies)

ExpectedRating(v) ==
  IF v = Undefined THEN Null ELSE Num(((v.h + 5) \div 10) * 10)

\* C8: each entry's rating is its record's rating rounded, null only if absent
C8_RatingRounded ==
  Shaped =>
    \A k \in {6, 7} :
      LET list == IF k = 6 THEN lists.recommendedShows ELSE lists.recommendedMovies
      IN \A i \in 1..Len(list) :
           \E j \in 1..Len(Batch(k)) :
             list[i] = [EntryOf(k, Batch(k)[j]) EXCEPT !.rating = ExpectedRating(Batch(k)[j].rating)]

(***************************************************************************)
(* C9: with any slots absent or lacking a data list and any sub-objects or *)
(* fields of a record absent, the call returns without raising, an absent  *)
(* slot yields what an empty list yields, and every absent field is null   *)
(* or undefined in the entry produced.                                     *)
(***************************************************************************)
LooselyTyped ==
  /\ input.t = "object"
  /\ \A k \in Slots :
       \/ input.IDX[k] = Undefined
       \/ /\ input.IDX[k].t = "object"
          /\ \/ IsNullish(input.IDX[k].data)
             \/ /\ input.IDX[k].data.t = "array"
                /\ \A i \in 1..Len(input.IDX[k].data.items) :
                     input.IDX[k].data.items[i].t = "object"

ListOf(k) ==
  CASE k = 0 -> lists.episodesInProgress
    [] k = 1 -> lists.moviesInProgress
    [] k = 2 -> lists.recentEpisodes
    [] k = 3 -> lists.recentMovies
    [] k = 4 -> lists.upcomingShows
    [] k = 5 -> lists.upcomingMovies
    [] k = 6 -> lists.recommendedShows
    [] k = 7 -> lists.recommendedMovies

\* the record the j-th entry of slot k's sub-list was built from
SourceOf(k, j) ==
  IF k \in {0, 1} THEN Batch(k)[j]
  ELSE LET b == Batch(k)
           S == FirstIdxSet([i \in 1..Len(b) |-> KeyOf(k, b[i])])
       IN b[CHOOSE i \in S : Rank(S, i) = j]

Sentinel(v) == v \in {Undefined, Null}

\* the fields of entry e that read sub-objects or fields absent from record r
AbsentFieldsAreSentinels(k, r, e) ==
  /\ (k \in {0, 2, 4} /\ r.show = Undefined) => (Sentinel(e.show) /\ Sentinel(e.tmdb_id))
  /\ (k \in {0, 2, 4} /\ r.episode = Undefined) =>
       (Sentinel(e.season) /\ Sentinel(e.episode) /\ Sentinel(e.title))
  /\ (k \in {1, 3, 5} /\ r.movie = Undefined) =>
       (Sentinel(e.title) /\ Sentinel(e.year) /\ Sentinel(e.tmdb_id))
  /\ (k \in {0, 1} /\ r.paused_at = Undefined) => Sentinel(e.paused_at)
  /\ (k \in {2, 3} /\ r.watched_at = Undefined) => Sentinel(e.watched_at)
  /\ (k = 4 /\ r.first_aired = Undefined) => Sentinel(e.airs_at)
  /\ (k = 5 /\ r.released = Undefined) => Sentinel(e.released)
  /\ (k \in {6, 7} /\ r.title = Undefined) => Sentinel(e.title)
  /\ (k \in {6, 7} /\ r.year = Undefined) => Sentinel(e.year)
  /\ (k \in {6, 7} /\ r.rating = Undefined) => Sentinel(e.rating)
  /\ (k \in {6, 7} /\ r.ids = Undefined) => Sentinel(e.tmdb_id)
  /\ (k = 6 /\ r.network = Undefined) => Sentinel(e.network)

TotalOverLooseInput ==
  /\ pc # "threw"
  /\ Shaped =>
       \A k \in Slots :
         /\ (input.IDX[k] = Undefined \/ IsNullish(input.IDX[k].data)) => ListOf(k) = <<>>
         /\ \A j \in 1..Len(ListOf(k)) :
              AbsentFieldsAreSentinels(k, SourceOf(k, j), ListOf(k)[j])

\* C9: total over loosely-typed input, every absent field (progress too) a sentinel
C9_AbsentFieldsAllSentinels ==
  LooselyTyped =>
    /\ TotalOverLooseInput
    /\ Shaped =>
         \A k \in {0, 1} :
           \A j \in 1..Len(ListOf(k)) :
             Batch(k)[j].progress = Undefined => Sentinel(ListOf(k)[j].progress)

(***************************************************************************)
(* The part of C9 the code meets: over loosely-typed input the call never  *)
(* raises, an absent slot yields what an empty list yields, and every      *)
(* absent field but progress is null or undefined in the entry; an absent  *)
(* progress comes out of Math.round as NaN.                                *)
(***************************************************************************)
C9_TotalWithNaNProgress ==
  LooselyTyped =>
    /\ TotalOverLooseInput
    /\ Shaped =>
         \A k \in {0, 1} :
           \A j \in 1..Len(ListOf(k)) :
             Batch(k)[j].progress = Undefined => ListOf(k)[j].progress = NaN

\* a slot lacking its data list, and an in-progress record with no field at all
C9_TotalWitness ==
  /\ Returned
  /\ input.IDX[3] = SlotObj(Undefined)
  /\ Batch(0) = <<EmptyItem>>
  /\ lists.recentMovies = <<>>
  /\ Len(output.data.recently_watched) = 1
  /\ output.data.continue_watching[1].show = Undefined
  /\ output.data.continue_watching[1].tmdb_id = Null
  /\ output.data.continue_watching[1].progress = NaN

(***************************************************************************)
(* C10: a malformed top-level input (no input, a data field that is not a  *)
(* list, a null list element) does not abort the call: it still returns a  *)
(* document.                                                               *)
(***************************************************************************)
C10_MalformedInputDegrades ==
  ~LooselyTyped => pc # "threw"

====
